---- MODULE Spec2Model ----
(***************************************************************************)
(* libpuppetdb: a Query (endpoint + query string) and a PuppetdbConnector  *)
(* (connection parameters, URL building, one blocking libcurl request).    *)
(*                                                                         *)
(* Two releases of include/libpuppetdb/libpuppetdb.h are modelled:         *)
(*   _v1  0.1.0, "does not raise exceptions": is_valid_/error_msg_ flags   *)
(*        on the connector, error_code_ on the query;                      *)
(*   _v2  0.2.0, exceptions: query_error, connector_error,                 *)
(*        processing_error.                                                *)
(* libcurl and the file system are the environment: every call draws the   *)
(* outcome of curl_easy_init, curl_easy_escape and curl_easy_perform.      *)
(***************************************************************************)
EXTENDS Integers, Sequences, FiniteSets, TLC

VARIABLES release, conn_pc, connector, query_pc, queries, last, calls

vars == <<release, conn_pc, connector, query_pc, queries, last, calls>>

(***************************************************************************)
(* Bounds of the model                                                     *)
(***************************************************************************)
\* number of performQuery / getQueryUrl calls in one behaviour
MaxCalls == 2
\* number of chunks libcurl hands to the body sink during one request
MaxChunks == 2

(***************************************************************************)
(* Tokens                                                                  *)
(***************************************************************************)
PUPPETDB_HTTP_PORT == 8080
PUPPETDB_SECURE_PORT == 8081

\* enum class ApiVersion { v2, v3, v4 } by enumerator value
ApiVersion_v2 == 0
ApiVersion_v3 == 1
ApiVersion_v4 == 2

ApiVersionsMap_v1 == (ApiVersion_v2 :> "v2") @@ (ApiVersion_v3 :> "v3")
ApiVersionsMap_v2 == (ApiVersion_v2 :> "v2") @@ (ApiVersion_v3 :> "v3")
                     @@ (ApiVersion_v4 :> "v4")

API_VERSION_DEFAULT_v1 == ApiVersion_v3
\* the default of 0.1.0 kept in 0.2.0
API_VERSION_DEFAULT_v2_notRaised == ApiVersion_v3
API_VERSION_DEFAULT_v2 == ApiVersion_v4

\* enum class ErrorCode
OK == 100
INVALID_CONNECTION == 101
INVALID_QUERY == 102
URL_ENCODING_FAILURE == 103

\* CURLcode values used by the transport
CURLE_OK == 0
CURLE_COULDNT_CONNECT == 7
CURLE_PARTIAL_FILE == 18

CurlCodes == {CURLE_OK, CURLE_COULDNT_CONNECT, CURLE_PARTIAL_FILE}

\* curl_easy_strerror
curl_easy_strerror(code) ==
    CASE code = CURLE_OK -> "No error"
      [] code = CURLE_COULDNT_CONNECT -> "Couldn't connect to server"
      [] code = CURLE_PARTIAL_FILE -> "Transferred a partial file"
      [] OTHER -> "Unknown error"

(***************************************************************************)
(* Input domains                                                           *)
(***************************************************************************)
Releases == {"nothrow", "throw"}
Hostnames == {"", "spam"}
CaPaths == {"", "/ca.pem"}
CrtPaths == {"", "/host.pem"}
KeyPaths == {"", "/host.key"}
Files == {"/ca.pem", "/host.pem", "/host.key"}
Ports == {PUPPETDB_HTTP_PORT, 42}
Endpoints == {"", "nodes"}
QueryStrings == {"", "a=b"}
QueryIds == {1, 2}

\* the k-th chunk libcurl hands to the body sink during a request
Chunk(k) == SubSeq("[{}]", ((k - 1) % 4) + 1, ((k - 1) % 4) + 1)

\* what curl_easy_perform may deliver to the write callback in one request:
\* the first n chunks of the response, for every n up to MaxChunks
Bodies == {[k \in 1..n |-> Chunk(k)] : n \in 0..MaxChunks}

\* what libcurl does during one performQuery call: curl_easy_init fails; or
\* it returns a handle and curl_easy_escape fails; or both succeed and
\* curl_easy_perform delivers a body and reports a code (nothing is
\* delivered when the connection could not be made).  status is the HTTP
\* status of the response (0: none received): CURLOPT_FAILONERROR is never
\* set, so a 404 response is a transfer that ended with CURLE_OK.  Outcomes
\* of calls that are not reached are not drawn.
CurlScenarios ==
    {[curl |-> FALSE, esc_ok |-> TRUE, body |-> <<>>, rc |-> CURLE_OK,
      status |-> 0],
     [curl |-> TRUE, esc_ok |-> FALSE, body |-> <<>>, rc |-> CURLE_OK,
      status |-> 200]}
    \cup {[curl |-> TRUE, esc_ok |-> TRUE, body |-> b, rc |-> r,
           status |-> 200] :
              b \in Bodies, r \in CurlCodes \ {CURLE_COULDNT_CONNECT}}
    \cup {[curl |-> TRUE, esc_ok |-> TRUE, body |-> b, rc |-> CURLE_OK,
           status |-> 404] : b \in Bodies}
    \cup {[curl |-> TRUE, esc_ok |-> TRUE, body |-> <<>>,
           rc |-> CURLE_COULDNT_CONNECT, status |-> 0]}

NoException == [type |-> "", what |-> ""]
Exception(t, w) == [type |-> t, what |-> w]

(***************************************************************************)
(* Utility functions                                                       *)
(***************************************************************************)
\* fileExists: an empty path is never opened; otherwise ifstream::good()
fileExists(fs, file_path) ==
    IF file_path # "" THEN file_path \in fs ELSE FALSE

Digit(d) == SubSeq("0123456789", d + 1, d + 1)

\* std::to_string(int), for the non-negative ports used here
RECURSIVE to_string(_)
to_string(n) ==
    IF n < 10 THEN Digit(n) ELSE to_string(n \div 10) \o Digit(n % 10)

\* RFC 3986 unreserved characters are left alone by curl_easy_escape
Unreserved ==
    {"a", "b", "c", "n", "o", "d", "e", "s", "0", "1", "-", ".", "_", "~"}

\* %XX of the other characters of the input domains
PercentCode(c) ==
    CASE c = "=" -> "%3D"
      [] c = " " -> "%20"
      [] c = "[" -> "%5B"
      [] c = "]" -> "%5D"
      [] c = "/" -> "%2F"
      [] c = "?" -> "%3F"
      [] OTHER -> "%25"

RECURSIVE Escape(_)
Escape(str) ==
    IF str = "" THEN ""
    ELSE LET c == Head(str)
         IN (IF c \in Unreserved THEN c ELSE PercentCode(c))
            \o Escape(Tail(str))

\* curl_easy_escape(curl, str, 0): nullptr on failure, else the escaped copy
curl_easy_escape(str, ok) ==
    IF ok THEN [null |-> FALSE, str |-> Escape(str)]
    ELSE [null |-> TRUE, str |-> ""]

(***************************************************************************)
(* Query                                                                   *)
(***************************************************************************)
\* the constructor asking for a query string as well
Query_v1_requiresQueryString(endpoint, query_string) ==
    [endpoint |-> endpoint,
     query_string |-> query_string,
     error_code |-> IF endpoint = "" \/ query_string = ""
                    THEN INVALID_QUERY ELSE OK]

\* the constructor storing the query string percent-encoded
Query_v1_storesEncoded(endpoint, query_string) ==
    [endpoint |-> endpoint,
     query_string |-> Escape(query_string),
     error_code |-> IF endpoint = "" THEN INVALID_QUERY ELSE OK]

\* 0.1.0: the constructor never fails, it records the outcome in error_code_
Query_v1(endpoint, query_string) ==
    [endpoint |-> endpoint,
     query_string |-> query_string,
     error_code |-> IF endpoint = "" THEN INVALID_QUERY ELSE OK]

Query_isValid(query) == query.error_code = OK

Query_setErrorCode(query, error_code) ==
    [query EXCEPT !.error_code = error_code]

\* 0.2.0: throws query_error when the endpoint is empty
Query_v2(endpoint, query_string) ==
    [obj |-> [endpoint |-> endpoint, query_string |-> query_string],
     exception |-> IF endpoint = ""
                   THEN Exception("query_error", "no endpoint specified")
                   ELSE NoException]

(***************************************************************************)
(* PuppetdbConnector 0.1.0: construction                                   *)
(***************************************************************************)
\* index of the first empty string of attrs at or after i, 0 when none
RECURSIVE FirstEmpty(_, _)
FirstEmpty(attrs, i) ==
    IF i > Len(attrs) THEN 0
    ELSE IF attrs[i] = "" THEN i
    ELSE FirstEmpty(attrs, i + 1)

\* the loop over the certificates reporting the last missing file
FirstMissing_reportsLast(fs, attrs, i) ==
    LET missing == {k \in i..Len(attrs) : ~fileExists(fs, attrs[k])}
    IN IF missing = {} THEN 0
       ELSE CHOOSE k \in missing : \A j \in missing : j <= k

\* index of the first attr at or after i for which fileExists fails, 0 when
\* none
RECURSIVE FirstMissing(_, _, _)
FirstMissing(fs, attrs, i) ==
    IF i > Len(attrs) THEN 0
    ELSE IF ~fileExists(fs, attrs[i]) THEN i
    ELSE FirstMissing(fs, attrs, i + 1)

checkHostname_v1(c) ==
    IF c.hostname = ""
    THEN [obj |-> [c EXCEPT !.is_valid = FALSE,
                            !.error_msg = "No hostname was specified."],
          ret |-> FALSE]
    ELSE [obj |-> c, ret |-> TRUE]

\* checkSSLSupport setting the message without clearing is_valid_
checkSSLSupport_v1_keepsValid(c, ssl) ==
    IF ssl
    THEN [obj |-> c, ret |-> TRUE]
    ELSE [obj |-> [c EXCEPT !.error_msg = "libcurl is not SSL enabled."],
          ret |-> FALSE]

checkSSLSupport_v1(c, ssl) ==
    IF ssl
    THEN [obj |-> c, ret |-> TRUE]
    ELSE [obj |-> [c EXCEPT !.is_valid = FALSE,
                            !.error_msg = "libcurl is not SSL enabled."],
          ret |-> FALSE]

\* probed: the paths handed to fileExists, in order
checkCertificates_v1(c, fs) ==
    LET attrs == <<c.hostname, c.ca_crt_path, c.client_crt_path,
                   c.client_key_path>>
        certs == <<c.ca_crt_path, c.client_crt_path, c.client_key_path>>
        e == FirstEmpty(attrs, 1)
        m == FirstMissing(fs, certs, 1)
    IN IF e # 0
       THEN [obj |-> [c EXCEPT !.is_valid = FALSE,
                      !.error_msg = "Not all certificates were specified."],
             ret |-> FALSE, probed |-> <<>>]
       ELSE IF m # 0
       THEN [obj |-> [c EXCEPT !.is_valid = FALSE,
                      !.error_msg = "Invalid certificate: " \o certs[m]],
             ret |-> FALSE, probed |-> SubSeq(certs, 1, m)]
       ELSE [obj |-> c, ret |-> TRUE, probed |-> certs]

\* the HTTP constructor without its call of checkHostname
PuppetdbConnector_v1_noHostnameCheck(hostname, port, api_version) ==
    [obj |-> [hostname |-> hostname, port |-> port,
              api_version |-> api_version,
              ca_crt_path |-> "", client_crt_path |-> "",
              client_key_path |-> "",
              is_secure |-> FALSE, is_valid |-> TRUE, error_msg |-> "",
              performed_query_url |-> ""],
     checks |-> <<>>, probed |-> <<>>]

\* Constructor for HTTP connector
PuppetdbConnector_v1(hostname, port, api_version) ==
    LET c == [hostname |-> hostname, port |-> port,
              api_version |-> api_version,
              ca_crt_path |-> "", client_crt_path |-> "",
              client_key_path |-> "",
              is_secure |-> FALSE, is_valid |-> TRUE, error_msg |-> "",
              performed_query_url |-> ""]
    IN [obj |-> checkHostname_v1(c).obj,
        checks |-> <<"checkHostname">>, probed |-> <<>>]

\* the SSL constructor ignoring what the check functions return
PuppetdbConnectorSSL_v1_noShortCircuit(hostname, ca_crt_path, client_crt_path, client_key_path, port, api_version, ssl, fs) ==
    LET c == [hostname |-> hostname, port |-> port,
              api_version |-> api_version,
              ca_crt_path |-> ca_crt_path,
              client_crt_path |-> client_crt_path,
              client_key_path |-> client_key_path,
              is_secure |-> TRUE, is_valid |-> TRUE, error_msg |-> "",
              performed_query_url |-> ""]
        h == checkHostname_v1(c)
        s == checkSSLSupport_v1(h.obj, ssl)
        k == checkCertificates_v1(s.obj, fs)
    IN [obj |-> k.obj,
        checks |-> <<"checkHostname", "checkSSLSupport",
                     "checkCertificates">>,
        probed |-> k.probed]

\* the SSL constructor reporting a connector whose checks failed as not
\* secure
PuppetdbConnectorSSL_v1_secureIffValid(hostname, ca_crt_path, client_crt_path, client_key_path, port, api_version, ssl, fs) ==
    LET c == [hostname |-> hostname, port |-> port,
              api_version |-> api_version,
              ca_crt_path |-> ca_crt_path,
              client_crt_path |-> client_crt_path,
              client_key_path |-> client_key_path,
              is_secure |-> TRUE, is_valid |-> TRUE, error_msg |-> "",
              performed_query_url |-> ""]
        h == checkHostname_v1(c)
        s == checkSSLSupport_v1(h.obj, ssl)
        k == checkCertificates_v1(s.obj, fs)
        r == IF ~h.ret
             THEN [obj |-> h.obj, checks |-> <<"checkHostname">>,
                   probed |-> <<>>]
             ELSE IF ~s.ret
             THEN [obj |-> s.obj,
                   checks |-> <<"checkHostname", "checkSSLSupport">>,
                   probed |-> <<>>]
             ELSE [obj |-> k.obj,
                   checks |-> <<"checkHostname", "checkSSLSupport",
                                "checkCertificates">>,
                   probed |-> k.probed]
    IN [r EXCEPT !.obj.is_secure = r.obj.is_valid]

\* Constructor for SSL connector
PuppetdbConnectorSSL_v1(hostname, ca_crt_path, client_crt_path, client_key_path, port, api_version, ssl, fs) ==
    LET c == [hostname |-> hostname, port |-> port,
              api_version |-> api_version,
              ca_crt_path |-> ca_crt_path,
              client_crt_path |-> client_crt_path,
              client_key_path |-> client_key_path,
              is_secure |-> TRUE, is_valid |-> TRUE, error_msg |-> "",
              performed_query_url |-> ""]
        h == checkHostname_v1(c)
        s == checkSSLSupport_v1(h.obj, ssl)
        k == checkCertificates_v1(s.obj, fs)
    IN IF ~h.ret
       THEN [obj |-> h.obj, checks |-> <<"checkHostname">>, probed |-> <<>>]
       ELSE IF ~s.ret
       THEN [obj |-> s.obj, checks |-> <<"checkHostname", "checkSSLSupport">>,
             probed |-> <<>>]
       ELSE [obj |-> k.obj,
             checks |-> <<"checkHostname", "checkSSLSupport",
                          "checkCertificates">>,
             probed |-> k.probed]

(***************************************************************************)
(* PuppetdbConnector 0.2.0: construction                                   *)
(***************************************************************************)
checkHostname_v2(c) ==
    IF c.hostname = ""
    THEN Exception("connector_error", "no hostname specified")
    ELSE NoException

checkSSLSupport_v2(ssl) ==
    IF ~ssl
    THEN Exception("connector_error", "libcurl is not SSL enabled")
    ELSE NoException

checkCertificates_v2(c, fs) ==
    LET certificates == <<c.ca_crt_path, c.client_crt_path,
                          c.client_key_path>>
        e == FirstEmpty(certificates, 1)
        m == FirstMissing(fs, certificates, 1)
    IN IF e # 0
       THEN [exception |-> Exception("connector_error",
                                     "not all certificates were specified"),
             probed |-> <<>>]
       ELSE IF m # 0
       THEN [exception |-> Exception("connector_error",
                 "invalid certificate file: " \o certificates[m]),
             probed |-> SubSeq(certificates, 1, m)]
       ELSE [exception |-> NoException, probed |-> certificates]

\* Constructor for HTTP connector
PuppetdbConnector_v2(hostname, port, api_version) ==
    LET c == [hostname |-> hostname, port |-> port,
              api_version |-> api_version,
              ca_crt_path |-> "", client_crt_path |-> "",
              client_key_path |-> "",
              is_secure |-> FALSE, performed_query_url |-> ""]
    IN [obj |-> c, exception |-> checkHostname_v2(c),
        checks |-> <<"checkHostname">>, probed |-> <<>>]

\* Constructor for SSL connector
PuppetdbConnectorSSL_v2(hostname, ca_crt_path, client_crt_path, client_key_path, port, api_version, ssl, fs) ==
    LET c == [hostname |-> hostname, port |-> port,
              api_version |-> api_version,
              ca_crt_path |-> ca_crt_path,
              client_crt_path |-> client_crt_path,
              client_key_path |-> client_key_path,
              is_secure |-> TRUE, performed_query_url |-> ""]
        h == checkHostname_v2(c)
        s == checkSSLSupport_v2(ssl)
        k == checkCertificates_v2(c, fs)
    IN IF h # NoException
       THEN [obj |-> c, exception |-> h,
             checks |-> <<"checkHostname">>, probed |-> <<>>]
       ELSE IF s # NoException
       THEN [obj |-> c, exception |-> s,
             checks |-> <<"checkHostname", "checkSSLSupport">>,
             probed |-> <<>>]
       ELSE [obj |-> c, exception |-> k.exception,
             checks |-> <<"checkHostname", "checkSSLSupport",
                          "checkCertificates">>,
             probed |-> k.probed]

(***************************************************************************)
(* The transport: libcurl easy handle                                      *)
(***************************************************************************)
\* the callback putting each chunk in front of what it has received
QueryResult_callback_prepends(contents, userp) ==
    [userp |-> contents \o userp, ret |-> Len(contents)]

\* QueryResult::callback: appends size * nmemb bytes and reports them all
QueryResult_callback(contents, userp) ==
    [userp |-> userp \o contents, ret |-> Len(contents)]

\* curl_easy_perform: hands the received chunks to CURLOPT_WRITEFUNCTION in
\* order, then reports return_code; a chunk the callback does not report as
\* fully consumed would abort the transfer
RECURSIVE curl_easy_perform(_, _, _)
curl_easy_perform(buffer, body, return_code) ==
    IF body = <<>>
    THEN [buffer |-> buffer, return_code |-> return_code]
    ELSE LET w == QueryResult_callback(Head(body), buffer)
         IN IF w.ret # Len(Head(body))
            THEN [buffer |-> w.userp, return_code |-> 23]
            ELSE curl_easy_perform(w.userp, Tail(body), return_code)

\* the options of the handle at the time of curl_easy_perform
setSSLOptions(handle, c) ==
    [handle EXCEPT !.sslcert = c.client_crt_path,
                   !.sslkey = c.client_key_path,
                   !.cainfo = c.ca_crt_path]

ConfiguredHandle(c) ==
    LET handle == [url |-> c.performed_query_url,
                   sslcert |-> "", sslkey |-> "", cainfo |-> ""]
    IN IF c.is_secure THEN setSSLOptions(handle, c) ELSE handle

\* one entry of the log of curl_easy_perform calls: the options of the
\* handle and the CURLcode libcurl returned
Request(c, return_code) ==
    [handle |-> ConfiguredHandle(c), return_code |-> return_code]

\* the log of curl_easy_escape calls getQueryUrl makes: none for an empty
\* query string, else one, with its outcome (TRUE: a string, FALSE: nullptr)
EscapeCalls(query, esc_ok) ==
    IF query.query_string # "" THEN <<esc_ok>> ELSE <<>>

(***************************************************************************)
(* PuppetdbConnector 0.1.0: queries                                        *)
(***************************************************************************)
getApiVersion_v1(c) == ApiVersionsMap_v1[c.api_version]

\* getQueryUrl appending the query string as it was given
getQueryUrl_v1_unencoded(c, query, esc_ok) ==
    LET protocol == IF c.is_secure THEN "https" ELSE "http"
        query_str == query.query_string
        encoded_query == curl_easy_escape(query_str, esc_ok)
        endpoint_and_query ==
            IF query_str # ""
            THEN query.endpoint \o "?query=" \o query_str
            ELSE query.endpoint
    IN IF query_str # "" /\ encoded_query.null
       THEN ""
       ELSE protocol \o "://" \o c.hostname \o ":" \o to_string(c.port)
            \o "/" \o getApiVersion_v1(c) \o "/" \o endpoint_and_query

\* getQueryUrl leaving the query part out when the encoding fails
getQueryUrl_v1_partialOnFailure(c, query, esc_ok) ==
    LET protocol == IF c.is_secure THEN "https" ELSE "http"
        query_str == query.query_string
        encoded_query == curl_easy_escape(query_str, esc_ok)
        endpoint_and_query ==
            IF query_str # "" /\ ~encoded_query.null
            THEN query.endpoint \o "?query=" \o encoded_query.str
            ELSE query.endpoint
    IN protocol \o "://" \o c.hostname \o ":" \o to_string(c.port)
       \o "/" \o getApiVersion_v1(c) \o "/" \o endpoint_and_query

\* getQueryUrl answering from the URL recorded by an earlier request
getQueryUrl_v1_cached(c, query, esc_ok) ==
    LET protocol == IF c.is_secure THEN "https" ELSE "http"
        query_str == query.query_string
        encoded_query == curl_easy_escape(query_str, esc_ok)
        endpoint_and_query ==
            IF query_str # ""
            THEN query.endpoint \o "?query=" \o encoded_query.str
            ELSE query.endpoint
    IN IF c.performed_query_url # "" THEN c.performed_query_url
       ELSE IF query_str # "" /\ encoded_query.null
       THEN ""
       ELSE protocol \o "://" \o c.hostname \o ":" \o to_string(c.port)
            \o "/" \o getApiVersion_v1(c) \o "/" \o endpoint_and_query

\* returns "" when the encoding of a non-empty query string fails
getQueryUrl_v1(c, query, esc_ok) ==
    LET protocol == IF c.is_secure THEN "https" ELSE "http"
        query_str == query.query_string
        encoded_query == curl_easy_escape(query_str, esc_ok)
        endpoint_and_query ==
            IF query_str # ""
            THEN query.endpoint \o "?query=" \o encoded_query.str
            ELSE query.endpoint
    IN IF query_str # "" /\ encoded_query.null
       THEN ""
       ELSE protocol \o "://" \o c.hostname \o ":" \o to_string(c.port)
            \o "/" \o getApiVersion_v1(c) \o "/" \o endpoint_and_query

\* setupAndPerform flagging the connector invalid when the request fails
setupAndPerform_v1_invalidates(c, query, curl, esc_ok, body, return_code) ==
    IF ~curl
    THEN [conn |-> c, query |-> query, result |-> "",
          exception |-> NoException, setup_called |-> TRUE,
          handle |-> "null", escapes |-> <<>>, requests |-> <<>>]
    ELSE LET c1 == [c EXCEPT !.performed_query_url =
                                 getQueryUrl_v1(c, query, esc_ok)]
             p == curl_easy_perform("", body, return_code)
         IN IF c1.performed_query_url = ""
            THEN [conn |-> c1,
                  query |-> Query_setErrorCode(query, URL_ENCODING_FAILURE),
                  result |-> "", exception |-> NoException,
                  setup_called |-> TRUE,
                  handle |-> "released",
                  escapes |-> EscapeCalls(query, esc_ok),
                  requests |-> <<>>]
            ELSE [conn |-> IF p.return_code # CURLE_OK
                           THEN [c1 EXCEPT !.is_valid = FALSE,
                                    !.error_msg =
                                        curl_easy_strerror(p.return_code)]
                           ELSE c1,
                  query |-> IF p.return_code # CURLE_OK
                            THEN Query_setErrorCode(query, p.return_code)
                            ELSE query,
                  result |-> p.buffer, exception |-> NoException,
                  setup_called |-> TRUE,
                  handle |-> "released",
                  escapes |-> EscapeCalls(query, esc_ok),
                  requests |-> <<Request(c1, p.return_code)>>]

\* setupAndPerform recording the URL only once the request has succeeded
setupAndPerform_v1_recordsOnSuccess(c, query, curl, esc_ok, body, return_code) ==
    IF ~curl
    THEN [conn |-> c, query |-> query, result |-> "",
          exception |-> NoException, setup_called |-> TRUE,
          handle |-> "null", escapes |-> <<>>, requests |-> <<>>]
    ELSE LET c1 == [c EXCEPT !.performed_query_url =
                                 getQueryUrl_v1(c, query, esc_ok)]
             p == curl_easy_perform("", body, return_code)
         IN IF c1.performed_query_url = ""
            THEN [conn |-> c,
                  query |-> Query_setErrorCode(query, URL_ENCODING_FAILURE),
                  result |-> "", exception |-> NoException,
                  setup_called |-> TRUE,
                  handle |-> "released",
                  escapes |-> EscapeCalls(query, esc_ok),
                  requests |-> <<>>]
            ELSE [conn |-> IF p.return_code # CURLE_OK THEN c ELSE c1,
                  query |-> IF p.return_code # CURLE_OK
                            THEN Query_setErrorCode(query, p.return_code)
                            ELSE query,
                  result |-> p.buffer, exception |-> NoException,
                  setup_called |-> TRUE,
                  handle |-> "released",
                  escapes |-> EscapeCalls(query, esc_ok),
                  requests |-> <<Request(c1, p.return_code)>>]

\* setupAndPerform storing the CURLcode in the query without testing it
setupAndPerform_v1_alwaysSetsCode(c, query, curl, esc_ok, body, return_code) ==
    IF ~curl
    THEN [conn |-> c, query |-> query, result |-> "",
          exception |-> NoException, setup_called |-> TRUE,
          handle |-> "null", escapes |-> <<>>, requests |-> <<>>]
    ELSE LET c1 == [c EXCEPT !.performed_query_url =
                                 getQueryUrl_v1(c, query, esc_ok)]
             p == curl_easy_perform("", body, return_code)
         IN IF c1.performed_query_url = ""
            THEN [conn |-> c1,
                  query |-> Query_setErrorCode(query, URL_ENCODING_FAILURE),
                  result |-> "", exception |-> NoException,
                  setup_called |-> TRUE,
                  handle |-> "released",
                  escapes |-> EscapeCalls(query, esc_ok),
                  requests |-> <<>>]
            ELSE [conn |-> c1,
                  query |-> Query_setErrorCode(query, p.return_code),
                  result |-> p.buffer, exception |-> NoException,
                  setup_called |-> TRUE,
                  handle |-> "released",
                  escapes |-> EscapeCalls(query, esc_ok),
                  requests |-> <<Request(c1, p.return_code)>>]

\* setupAndPerform trying a failed request a second time
setupAndPerform_v1_retries(c, query, curl, esc_ok, body, return_code) ==
    IF ~curl
    THEN [conn |-> c, query |-> query, result |-> "",
          exception |-> NoException, setup_called |-> TRUE,
          handle |-> "null", escapes |-> <<>>, requests |-> <<>>]
    ELSE LET c1 == [c EXCEPT !.performed_query_url =
                                 getQueryUrl_v1(c, query, esc_ok)]
             p == curl_easy_perform("", body, return_code)
         IN IF c1.performed_query_url = ""
            THEN [conn |-> c1,
                  query |-> Query_setErrorCode(query, URL_ENCODING_FAILURE),
                  result |-> "", exception |-> NoException,
                  setup_called |-> TRUE,
                  handle |-> "released",
                  escapes |-> EscapeCalls(query, esc_ok),
                  requests |-> <<>>]
            ELSE [conn |-> c1,
                  query |-> IF p.return_code # CURLE_OK
                            THEN Query_setErrorCode(query, p.return_code)
                            ELSE query,
                  result |-> p.buffer, exception |-> NoException,
                  setup_called |-> TRUE,
                  handle |-> "released",
                  escapes |-> EscapeCalls(query, esc_ok),
                  requests |-> IF p.return_code # CURLE_OK
                               THEN <<Request(c1, p.return_code),
                                      Request(c1, p.return_code)>>
                               ELSE <<Request(c1, p.return_code)>>]

\* curl: curl_easy_init returned a handle; body, return_code: what
\* curl_easy_perform delivers and reports.
\* handle: "null" (none acquired), "released" (curl_easy_cleanup ran) or
\* "leaked"; escapes, requests: the curl_easy_escape and curl_easy_perform
\* calls made
setupAndPerform_v1(c, query, curl, esc_ok, body, return_code) ==
    IF ~curl
    THEN [conn |-> c, query |-> query, result |-> "",
          exception |-> NoException, setup_called |-> TRUE,
          handle |-> "null", escapes |-> <<>>, requests |-> <<>>]
    ELSE LET c1 == [c EXCEPT !.performed_query_url =
                                 getQueryUrl_v1(c, query, esc_ok)]
             p == curl_easy_perform("", body, return_code)
         IN IF c1.performed_query_url = ""
            THEN [conn |-> c1,
                  query |-> Query_setErrorCode(query, URL_ENCODING_FAILURE),
                  result |-> "", exception |-> NoException,
                  setup_called |-> TRUE,
                  handle |-> "released",
                  escapes |-> EscapeCalls(query, esc_ok),
                  requests |-> <<>>]
            ELSE [conn |-> c1,
                  query |-> IF p.return_code # CURLE_OK
                            THEN Query_setErrorCode(query, p.return_code)
                            ELSE query,
                  result |-> p.buffer, exception |-> NoException,
                  setup_called |-> TRUE,
                  handle |-> "released",
                  escapes |-> EscapeCalls(query, esc_ok),
                  requests |-> <<Request(c1, p.return_code)>>]

\* performQuery without the isValid() test of the connector
performQuery_v1_noConnectorCheck(c, query, curl, esc_ok, body, return_code) ==
    IF Query_isValid(query)
    THEN setupAndPerform_v1(c, query, curl, esc_ok, body, return_code)
    ELSE [conn |-> c, query |-> query,
          result |-> "", exception |-> NoException,
          setup_called |-> FALSE, handle |-> "null", escapes |-> <<>>,
          requests |-> <<>>]

\* performQuery without the isValid() test of the query
performQuery_v1_noQueryCheck(c, query, curl, esc_ok, body, return_code) ==
    IF c.is_valid
    THEN setupAndPerform_v1(c, query, curl, esc_ok, body, return_code)
    ELSE [conn |-> c,
          query |-> Query_setErrorCode(query, INVALID_CONNECTION),
          result |-> "", exception |-> NoException,
          setup_called |-> FALSE, handle |-> "null", escapes |-> <<>>,
          requests |-> <<>>]

\* performQuery clearing the status an earlier call left in the query
performQuery_v1_clearsStatus(c, query, curl, esc_ok, body, return_code) ==
    IF c.is_valid /\ query.endpoint # ""
    THEN setupAndPerform_v1(c, Query_setErrorCode(query, OK), curl, esc_ok,
                            body, return_code)
    ELSE [conn |-> c,
          query |-> IF c.is_valid THEN query
                    ELSE Query_setErrorCode(query, INVALID_CONNECTION),
          result |-> "", exception |-> NoException,
          setup_called |-> FALSE, handle |-> "null", escapes |-> <<>>,
          requests |-> <<>>]

performQuery_v1(c, query, curl, esc_ok, body, return_code) ==
    IF c.is_valid /\ Query_isValid(query)
    THEN setupAndPerform_v1(c, query, curl, esc_ok, body, return_code)
    ELSE [conn |-> c,
          query |-> IF c.is_valid THEN query
                    ELSE Query_setErrorCode(query, INVALID_CONNECTION),
          result |-> "", exception |-> NoException,
          setup_called |-> FALSE, handle |-> "null", escapes |-> <<>>,
          requests |-> <<>>]

(***************************************************************************)
(* PuppetdbConnector 0.2.0: queries                                        *)
(***************************************************************************)
getApiVersion_v2(c) == ApiVersionsMap_v2[c.api_version]

\* throws processing_error when the encoding of a non-empty query string
\* fails
getQueryUrl_v2(c, query, esc_ok) ==
    LET protocol == IF c.is_secure THEN "https" ELSE "http"
        query_str == query.query_string
        encoded_query == curl_easy_escape(query_str, esc_ok)
        endpoint_and_query ==
            IF query_str # ""
            THEN query.endpoint \o "?query=" \o encoded_query.str
            ELSE query.endpoint
    IN IF query_str # "" /\ encoded_query.null
       THEN [url |-> "",
             exception |-> Exception("processing_error",
                                     "failed to encode the query URL")]
       ELSE [url |-> protocol \o "://" \o c.hostname \o ":"
                     \o to_string(c.port) \o "/" \o getApiVersion_v2(c)
                     \o "/" \o endpoint_and_query,
             exception |-> NoException]

setupAndPerform_v2(c, query, curl, esc_ok, body, return_code) ==
    IF ~curl
    THEN [conn |-> c, query |-> query, result |-> "",
          exception |-> NoException, setup_called |-> TRUE,
          handle |-> "null", escapes |-> <<>>, requests |-> <<>>]
    ELSE LET u == getQueryUrl_v2(c, query, esc_ok)
             c1 == [c EXCEPT !.performed_query_url = u.url]
             p == curl_easy_perform("", body, return_code)
         IN IF u.exception # NoException
            THEN [conn |-> c, query |-> query, result |-> "",
                  exception |-> u.exception, setup_called |-> TRUE,
                  handle |-> "leaked",
                  escapes |-> EscapeCalls(query, esc_ok),
                  requests |-> <<>>]
            ELSE IF p.return_code # CURLE_OK
            THEN [conn |-> c1, query |-> query, result |-> "",
                  exception |-> Exception("processing_error",
                                   curl_easy_strerror(p.return_code)),
                  setup_called |-> TRUE,
                  handle |-> "leaked",
                  escapes |-> EscapeCalls(query, esc_ok),
                  requests |-> <<Request(c1, p.return_code)>>]
            ELSE [conn |-> c1, query |-> query, result |-> p.buffer,
                  exception |-> NoException, setup_called |-> TRUE,
                  handle |-> "released",
                  escapes |-> EscapeCalls(query, esc_ok),
                  requests |-> <<Request(c1, p.return_code)>>]

performQuery_v2(c, query, curl, esc_ok, body, return_code) ==
    setupAndPerform_v2(c, query, curl, esc_ok, body, return_code)

(***************************************************************************)
(* State machine: one connector, the queries of QueryIds (numbered in the  *)
(* order of their construction), and the calls the client program makes on *)
(* them                                                                    *)
(***************************************************************************)
\* a slot whose object has not been constructed (or whose constructor threw)
NoObject == [null |-> TRUE]

\* outcome of the latest call (op = "" before the first one).
\* setup_called, handle, escapes, requests: what the call did with libcurl;
\* chunks, http_status: what the server sent in answer to its request;
\* args, fs, ssl: the string arguments of a constructor, the files that
\* existed and the SSL support of libcurl when it ran;
\* prev_url: getPerformedQueryUrl() when the call was entered
NoCall == [op |-> "", q |-> 0, result |-> "", exception |-> NoException,
           setup_called |-> FALSE, handle |-> "null", escapes |-> <<>>,
           requests |-> <<>>,
           chunks |-> <<>>, http_status |-> 0,
           args |-> <<>>, fs |-> {}, ssl |-> FALSE,
           checks |-> <<>>, probed |-> <<>>, prev_url |-> ""]

Init ==
    /\ release \in Releases
    /\ conn_pc = "none"
    /\ connector = NoObject
    /\ query_pc = [i \in QueryIds |-> "none"]
    /\ queries = [i \in QueryIds |-> NoObject]
    /\ last = NoCall
    /\ calls = 0

NewQuery_v1(i, endpoint, query_string) ==
    /\ release = "nothrow"
    /\ query_pc[i] = "none"
    /\ \A j \in QueryIds : j < i => query_pc[j] # "none"
    /\ queries' = [queries EXCEPT ![i] = Query_v1(endpoint, query_string)]
    /\ query_pc' = [query_pc EXCEPT ![i] = "alive"]
    /\ last' = [NoCall EXCEPT !.op = "Query", !.q = i,
                              !.args = <<endpoint, query_string>>]
    /\ UNCHANGED <<release, conn_pc, connector, calls>>

NewQuery_v2(i, endpoint, query_string) ==
    /\ release = "throw"
    /\ query_pc[i] = "none"
    /\ \A j \in QueryIds : j < i => query_pc[j] # "none"
    /\ LET r == Query_v2(endpoint, query_string)
       IN /\ queries' = IF r.exception = NoException
                        THEN [queries EXCEPT ![i] = r.obj]
                        ELSE queries
          /\ query_pc' = [query_pc EXCEPT ![i] =
                             IF r.exception = NoException
                             THEN "alive" ELSE "threw"]
          /\ last' = [NoCall EXCEPT !.op = "Query", !.q = i,
                                    !.exception = r.exception,
                                    !.args = <<endpoint, query_string>>]
    /\ UNCHANGED <<release, conn_pc, connector, calls>>

NewConnector_v1(hostname, port, api_version) ==
    /\ release = "nothrow"
    /\ conn_pc = "none"
    /\ LET r == PuppetdbConnector_v1(hostname, port, api_version)
       IN /\ connector' = r.obj
          /\ last' = [NoCall EXCEPT !.op = "PuppetdbConnector",
                                    !.args = <<hostname>>,
                                    !.checks = r.checks,
                                    !.probed = r.probed]
    /\ conn_pc' = "alive"
    /\ UNCHANGED <<release, query_pc, queries, calls>>

NewConnectorSSL_v1(hostname, ca_crt_path, client_crt_path, client_key_path, ssl, fs) ==
    /\ release = "nothrow"
    /\ conn_pc = "none"
    /\ LET r == PuppetdbConnectorSSL_v1(hostname, ca_crt_path,
                    client_crt_path, client_key_path, PUPPETDB_SECURE_PORT,
                    API_VERSION_DEFAULT_v1, ssl, fs)
       IN /\ connector' = r.obj
          /\ last' = [NoCall EXCEPT !.op = "PuppetdbConnectorSSL",
                          !.args = <<hostname, ca_crt_path, client_crt_path,
                                     client_key_path>>,
                          !.fs = fs, !.ssl = ssl,
                          !.checks = r.checks,
                          !.probed = r.probed]
    /\ conn_pc' = "alive"
    /\ UNCHANGED <<release, query_pc, queries, calls>>

NewConnector_v2(hostname, port, api_version) ==
    /\ release = "throw"
    /\ conn_pc = "none"
    /\ LET r == PuppetdbConnector_v2(hostname, port, api_version)
       IN /\ connector' = IF r.exception = NoException
                          THEN r.obj ELSE connector
          /\ conn_pc' = IF r.exception = NoException
                        THEN "alive" ELSE "threw"
          /\ last' = [NoCall EXCEPT !.op = "PuppetdbConnector",
                                    !.exception = r.exception,
                                    !.args = <<hostname>>,
                                    !.checks = r.checks,
                                    !.probed = r.probed]
    /\ UNCHANGED <<release, query_pc, queries, calls>>

NewConnectorSSL_v2(hostname, ca_crt_path, client_crt_path, client_key_path, ssl, fs) ==
    /\ release = "throw"
    /\ conn_pc = "none"
    /\ LET r == PuppetdbConnectorSSL_v2(hostname, ca_crt_path,
                    client_crt_path, client_key_path, PUPPETDB_SECURE_PORT,
                    API_VERSION_DEFAULT_v2, ssl, fs)
       IN /\ connector' = IF r.exception = NoException
                          THEN r.obj ELSE connector
          /\ conn_pc' = IF r.exception = NoException
                        THEN "alive" ELSE "threw"
          /\ last' = [NoCall EXCEPT !.op = "PuppetdbConnectorSSL",
                          !.exception = r.exception,
                          !.args = <<hostname, ca_crt_path, client_crt_path,
                                     client_key_path>>,
                          !.fs = fs, !.ssl = ssl,
                          !.checks = r.checks,
                          !.probed = r.probed]
    /\ UNCHANGED <<release, query_pc, queries, calls>>

PerformQuery_v1(i, curl, esc_ok, body, return_code, http_status) ==
    /\ release = "nothrow"
    /\ conn_pc = "alive"
    /\ query_pc[i] = "alive"
    /\ calls < MaxCalls
    /\ LET r == performQuery_v1(connector, queries[i], curl, esc_ok, body,
                                return_code)
       IN /\ connector' = r.conn
          /\ queries' = [queries EXCEPT ![i] = r.query]
          /\ last' = [NoCall EXCEPT !.op = "performQuery", !.q = i,
                          !.result = r.result,
                          !.exception = r.exception,
                          !.setup_called = r.setup_called,
                          !.handle = r.handle,
                          !.escapes = r.escapes,
                          !.requests = r.requests,
                          !.chunks = IF r.requests # <<>> THEN body
                                     ELSE <<>>,
                          !.http_status = IF r.requests # <<>>
                                          THEN http_status ELSE 0,
                          !.prev_url = connector.performed_query_url]
    /\ calls' = calls + 1
    /\ UNCHANGED <<release, conn_pc, query_pc>>

PerformQuery_v2(i, curl, esc_ok, body, return_code, http_status) ==
    /\ release = "throw"
    /\ conn_pc = "alive"
    /\ query_pc[i] = "alive"
    /\ calls < MaxCalls
    /\ LET r == performQuery_v2(connector, queries[i], curl, esc_ok, body,
                                return_code)
       IN /\ connector' = r.conn
          /\ queries' = [queries EXCEPT ![i] = r.query]
          /\ last' = [NoCall EXCEPT !.op = "performQuery", !.q = i,
                          !.result = r.result,
                          !.exception = r.exception,
                          !.setup_called = r.setup_called,
                          !.handle = r.handle,
                          !.escapes = r.escapes,
                          !.requests = r.requests,
                          !.chunks = IF r.requests # <<>> THEN body
                                     ELSE <<>>,
                          !.http_status = IF r.requests # <<>>
                                          THEN http_status ELSE 0,
                          !.prev_url = connector.performed_query_url]
    /\ calls' = calls + 1
    /\ UNCHANGED <<release, conn_pc, query_pc>>

\* getQueryUrl recording the URL it returns, as setupAndPerform does
GetQueryUrl_v1_records(i, esc_ok) ==
    /\ release = "nothrow"
    /\ conn_pc = "alive"
    /\ query_pc[i] = "alive"
    /\ calls < MaxCalls
    /\ last' = [NoCall EXCEPT !.op = "getQueryUrl", !.q = i,
                    !.result = getQueryUrl_v1(connector, queries[i], esc_ok),
                    !.escapes = EscapeCalls(queries[i], esc_ok),
                    !.prev_url = connector.performed_query_url]
    /\ connector' = [connector EXCEPT !.performed_query_url =
                         getQueryUrl_v1(connector, queries[i], esc_ok)]
    /\ calls' = calls + 1
    /\ UNCHANGED <<release, conn_pc, query_pc, queries>>

\* getQueryUrl called by the client with a handle of its own
GetQueryUrl_v1(i, esc_ok) ==
    /\ release = "nothrow"
    /\ conn_pc = "alive"
    /\ query_pc[i] = "alive"
    /\ calls < MaxCalls
    /\ last' = [NoCall EXCEPT !.op = "getQueryUrl", !.q = i,
                    !.result = getQueryUrl_v1(connector, queries[i], esc_ok),
                    !.escapes = EscapeCalls(queries[i], esc_ok),
                    !.prev_url = connector.performed_query_url]
    /\ calls' = calls + 1
    /\ UNCHANGED <<release, conn_pc, connector, query_pc, queries>>

GetQueryUrl_v2(i, esc_ok) ==
    /\ release = "throw"
    /\ conn_pc = "alive"
    /\ query_pc[i] = "alive"
    /\ calls < MaxCalls
    /\ LET u == getQueryUrl_v2(connector, queries[i], esc_ok)
       IN last' = [NoCall EXCEPT !.op = "getQueryUrl", !.q = i,
                       !.result = u.url, !.exception = u.exception,
                       !.escapes = EscapeCalls(queries[i], esc_ok),
                       !.prev_url = connector.performed_query_url]
    /\ calls' = calls + 1
    /\ UNCHANGED <<release, conn_pc, connector, query_pc, queries>>

Next ==
    \/ \E i \in QueryIds, e \in Endpoints, s \in QueryStrings :
           NewQuery_v1(i, e, s)
    \/ \E i \in QueryIds, e \in Endpoints, s \in QueryStrings :
           NewQuery_v2(i, e, s)
    \/ \E h \in Hostnames, p \in Ports, a \in DOMAIN ApiVersionsMap_v1 :
           NewConnector_v1(h, p, a)
    \/ \E h \in Hostnames, p \in Ports, a \in DOMAIN ApiVersionsMap_v2 :
           NewConnector_v2(h, p, a)
    \/ \E h \in Hostnames, ca \in CaPaths, crt \in CrtPaths, key \in KeyPaths,
          ssl \in BOOLEAN, fs \in SUBSET Files :
           NewConnectorSSL_v1(h, ca, crt, key, ssl, fs)
    \/ \E h \in Hostnames, ca \in CaPaths, crt \in CrtPaths, key \in KeyPaths,
          ssl \in BOOLEAN, fs \in SUBSET Files :
           NewConnectorSSL_v2(h, ca, crt, key, ssl, fs)
    \/ \E i \in QueryIds, sc \in CurlScenarios :
           PerformQuery_v1(i, sc.curl, sc.esc_ok, sc.body, sc.rc, sc.status)
    \/ \E i \in QueryIds, sc \in CurlScenarios :
           PerformQuery_v2(i, sc.curl, sc.esc_ok, sc.body, sc.rc, sc.status)
    \/ \E i \in QueryIds, esc_ok \in BOOLEAN : GetQueryUrl_v1(i, esc_ok)
    \/ \E i \in QueryIds, esc_ok \in BOOLEAN : GetQueryUrl_v2(i, esc_ok)

Spec == Init /\ [][Next]_vars

(***************************************************************************)
(* The pre-encoded release (namespace PuppetdbQuery): the client encodes   *)
(* the query string, Query::toString formats it and getQueryUrl needs no   *)
(* libcurl handle.  Construction is the code of 0.1.0 (the ports, the      *)
(* checks and their messages are the same text); the connector has no      *)
(* performed_query_url_ member, the field stays "".                        *)
(***************************************************************************)
ApiVersionsMap_pq == (ApiVersion_v2 :> "v2") @@ (ApiVersion_v3 :> "v3")
API_VERSION_DEFAULT_pq == ApiVersion_v3

\* query strings as the client hands them over: already encoded or not
QueryStrings_pq == {"", "bar", "a=b"}

Query_pq(endpoint, query_string) ==
    [endpoint |-> endpoint,
     query_string |-> query_string,
     error_code |-> IF endpoint = "" THEN INVALID_QUERY ELSE OK]

\* toString percent-encoding the query string
Query_toString_encodes(query) ==
    IF query.query_string = "" THEN query.endpoint
    ELSE query.endpoint \o "?query=" \o Escape(query.query_string)

Query_toString(query) ==
    IF query.query_string = "" THEN query.endpoint
    ELSE query.endpoint \o "?query=" \o query.query_string

\* Constructor for HTTP connector
PuppetdbConnector_pq(hostname, port, api_version) ==
    LET c == [hostname |-> hostname, port |-> port,
              api_version |-> api_version,
              ca_crt_path |-> "", client_crt_path |-> "",
              client_key_path |-> "",
              is_secure |-> FALSE, is_valid |-> TRUE, error_msg |-> "",
              performed_query_url |-> ""]
    IN checkHostname_v1(c).obj

\* Constructor for SSL connector
PuppetdbConnectorSSL_pq(hostname, ca_crt_path, client_crt_path, client_key_path, port, api_version, ssl, fs) ==
    LET c == [hostname |-> hostname, port |-> port,
              api_version |-> api_version,
              ca_crt_path |-> ca_crt_path,
              client_crt_path |-> client_crt_path,
              client_key_path |-> client_key_path,
              is_secure |-> TRUE, is_valid |-> TRUE, error_msg |-> "",
              performed_query_url |-> ""]
        h == checkHostname_v1(c)
        s == checkSSLSupport_v1(h.obj, ssl)
        k == checkCertificates_v1(s.obj, fs)
    IN IF ~h.ret THEN h.obj
       ELSE IF ~s.ret THEN s.obj
       ELSE k.obj

getApiVersion_pq(c) == ApiVersionsMap_pq[c.api_version]

getQueryUrl_pq(c, query) ==
    LET protocol == IF c.is_secure THEN "https" ELSE "http"
    IN protocol \o "://" \o c.hostname \o ":" \o to_string(c.port)
       \o "/" \o getApiVersion_pq(c) \o "/" \o Query_toString(query)

InitPQ ==
    /\ release = "preencoded"
    /\ conn_pc = "none"
    /\ connector = NoObject
    /\ query_pc = [i \in QueryIds |-> "none"]
    /\ queries = [i \in QueryIds |-> NoObject]
    /\ last = NoCall
    /\ calls = 0

NewQuery_pq(i, endpoint, query_string) ==
    /\ release = "preencoded"
    /\ query_pc[i] = "none"
    /\ \A j \in QueryIds : j < i => query_pc[j] # "none"
    /\ queries' = [queries EXCEPT ![i] = Query_pq(endpoint, query_string)]
    /\ query_pc' = [query_pc EXCEPT ![i] = "alive"]
    /\ last' = [NoCall EXCEPT !.op = "Query", !.q = i,
                              !.args = <<endpoint, query_string>>]
    /\ UNCHANGED <<release, conn_pc, connector, calls>>

NewConnector_pq(hostname, port, api_version) ==
    /\ release = "preencoded"
    /\ conn_pc = "none"
    /\ connector' = PuppetdbConnector_pq(hostname, port, api_version)
    /\ last' = [NoCall EXCEPT !.op = "PuppetdbConnector",
                              !.args = <<hostname>>]
    /\ conn_pc' = "alive"
    /\ UNCHANGED <<release, query_pc, queries, calls>>

NewConnectorSSL_pq(hostname, ca_crt_path, client_crt_path, client_key_path, ssl, fs) ==
    /\ release = "preencoded"
    /\ conn_pc = "none"
    /\ connector' = PuppetdbConnectorSSL_pq(hostname, ca_crt_path,
                         client_crt_path, client_key_path,
                         PUPPETDB_SECURE_PORT, API_VERSION_DEFAULT_pq,
                         ssl, fs)
    /\ last' = [NoCall EXCEPT !.op = "PuppetdbConnectorSSL",
                    !.args = <<hostname, ca_crt_path, client_crt_path,
                               client_key_path>>,
                    !.fs = fs, !.ssl = ssl]
    /\ conn_pc' = "alive"
    /\ UNCHANGED <<release, query_pc, queries, calls>>

ToString_pq(i) ==
    /\ release = "preencoded"
    /\ query_pc[i] = "alive"
    /\ calls < MaxCalls
    /\ last' = [NoCall EXCEPT !.op = "toString", !.q = i,
                              !.result = Query_toString(queries[i])]
    /\ calls' = calls + 1
    /\ UNCHANGED <<release, conn_pc, connector, query_pc, queries>>

GetQueryUrl_pq(i) ==
    /\ release = "preencoded"
    /\ conn_pc = "alive"
    /\ query_pc[i] = "alive"
    /\ calls < MaxCalls
    /\ last' = [NoCall EXCEPT !.op = "getQueryUrl", !.q = i,
                    !.result = getQueryUrl_pq(connector, queries[i])]
    /\ calls' = calls + 1
    /\ UNCHANGED <<release, conn_pc, connector, query_pc, queries>>

NextPQ ==
    \/ \E i \in QueryIds, e \in Endpoints, s \in QueryStrings_pq :
           NewQuery_pq(i, e, s)
    \/ \E h \in Hostnames, p \in Ports, a \in DOMAIN ApiVersionsMap_pq :
           NewConnector_pq(h, p, a)
    \/ \E h \in Hostnames, ca \in CaPaths, crt \in CrtPaths, key \in KeyPaths,
          ssl \in BOOLEAN, fs \in SUBSET Files :
           NewConnectorSSL_pq(h, ca, crt, key, ssl, fs)
    \/ \E i \in QueryIds : ToString_pq(i)
    \/ \E i \in QueryIds : GetQueryUrl_pq(i)

SpecPQ == InitPQ /\ [][NextPQ]_vars

(***************************************************************************)
(* Properties                                                              *)
(***************************************************************************)
\* the step is a performQuery call on query last'.q
PerformStep == calls' = calls + 1 /\ last'.op = "performQuery"

\* the step is a direct getQueryUrl call on query last'.q
UrlStep == calls' = calls + 1 /\ last'.op = "getQueryUrl"

\* C1: in the non-throwing release, performQuery on an invalid connector
\* returns "", does not call setupAndPerform (no handle, no escape, no
\* request) and leaves the query's error code at INVALID_CONNECTION (101),
\* whatever the query
C1_InvalidConnectorNoIO ==
    (release = "nothrow" /\ last.op = "performQuery" /\ ~connector.is_valid)
    => /\ last.result = ""
       /\ ~last.setup_called
       /\ last.handle = "null"
       /\ last.escapes = <<>>
       /\ last.requests = <<>>
       /\ queries[last.q].error_code = 101

\* an invalid connector was asked to perform a query built with a non-empty
\* endpoint
C1_Witness ==
    /\ release = "nothrow"
    /\ last.op = "performQuery"
    /\ ~connector.is_valid
    /\ queries[last.q].endpoint # ""
    /\ queries[last.q].error_code = 101

\* C2: in the non-throwing release, performQuery of an invalid query on a
\* valid connector returns "" without calling setupAndPerform and changes
\* neither the query's error code nor the performed-query URL
C2_InvalidQueryNoIO ==
    [][(release = "nothrow" /\ PerformStep /\ connector.is_valid
        /\ queries[last'.q].error_code # 100)
       => /\ last'.result = ""
          /\ ~last'.setup_called
          /\ last'.requests = <<>>
          /\ queries'[last'.q].error_code = queries[last'.q].error_code
          /\ connector'.performed_query_url = connector.performed_query_url
      ]_vars

\* an invalid query was performed on a valid connector that had already
\* recorded the URL of an earlier request
C2_Witness ==
    /\ release = "nothrow"
    /\ last.op = "performQuery"
    /\ connector.is_valid
    /\ queries[last.q].error_code = 102
    /\ last.prev_url # ""
    /\ connector.performed_query_url = last.prev_url

\* what the constructor fixed: validity, error message, isSecure(), host,
\* port, API version and certificate paths
Configuration(c) ==
    <<IF release = "nothrow" THEN <<c.is_valid, c.error_msg>> ELSE <<>>,
      c.is_secure, c.hostname, c.port, c.api_version,
      c.ca_crt_path, c.client_crt_path, c.client_key_path>>

\* C3: no performQuery or getQueryUrl call changes what the constructor
\* fixed
C3_ConfigurationFixed ==
    [][conn_pc = "alive" => Configuration(connector') = Configuration(connector)
      ]_vars

\* a valid connector has had a request fail at the transport
C3_Witness ==
    /\ release = "nothrow"
    /\ last.op = "performQuery"
    /\ last.requests # <<>>
    /\ last.requests[1].return_code # 0
    /\ connector.is_valid
    /\ connector.error_msg = ""

\* isValid() of the connector and of the query; in 0.2.0 an object that
\* exists is valid
ConnectorValid(c) == release = "throw" \/ c.is_valid
QueryValid(query) == release = "throw" \/ query.error_code = 100

\* the URL getQueryUrl returns for the query when the encoding works
BuiltUrl(c, query) ==
    IF release = "nothrow"
    THEN getQueryUrl_v1(c, query, TRUE)
    ELSE getQueryUrl_v2(c, query, TRUE).url

\* no curl_easy_escape call of the latest call returned nullptr
NoEncodingFailure == \A k \in DOMAIN last.escapes : last.escapes[k]

\* the latest call handed a request to curl_easy_perform and it returned
\* CURLE_OK
RequestCompleted ==
    last.requests # <<>> /\ last.requests[1].return_code = 0

C5_UrlOfLastIssuedRequest ==
    [][PerformStep
       => connector'.performed_query_url
              = IF last'.requests # <<>>
                THEN last'.requests[1].handle.url
                ELSE connector.performed_query_url
      ]_vars

\* C6: in the non-throwing release performQuery returns "" whenever the
\* call did not complete a request
C6_EmptyResultOnFailure ==
    (release = "nothrow" /\ last.op = "performQuery" /\ ~RequestCompleted)
    => last.result = ""

\* C7: a performQuery call that did not complete a request is signalled: by
\* an error code other than OK (non-throwing release), by an exception of
\* the libpuppetdb_error hierarchy (exception release)
C7_FailureSignalled ==
    (last.op = "performQuery" /\ ~RequestCompleted)
    => IF release = "nothrow"
       THEN queries[last.q].error_code # 100
       ELSE last.exception.type
                \in {"query_error", "connector_error", "processing_error"}

ReportedError ==
    IF release = "nothrow" THEN connector.error_msg ELSE last.exception.what

\* the constructor that ran last left a usable connector
ConstructedValid ==
    IF release = "nothrow"
    THEN conn_pc = "alive" /\ connector.is_valid /\ connector.error_msg = ""
    ELSE conn_pc = "alive" /\ last.exception = NoException

\* the constructor that ran last failed
ConstructedInvalid ==
    IF release = "nothrow"
    THEN conn_pc = "alive" /\ ~connector.is_valid
    ELSE conn_pc = "threw" /\ last.exception.type = "connector_error"

\* the first check of the documented order that the arguments of the SSL
\* constructor fail: 1 hostname, 2 SSL support, 3 a certificate path is
\* empty, 4 a certificate file does not exist, 0 none
FirstFailingCheck ==
    LET a == last.args
    IN IF a[1] = "" THEN 1
       ELSE IF ~last.ssl THEN 2
       ELSE IF a[2] = "" \/ a[3] = "" \/ a[4] = "" THEN 3
       ELSE IF \E k \in 2..4 : a[k] \notin last.fs THEN 4
       ELSE 0

\* C9: the SSL constructor reports the error of the first failing check of
\* the order hostname, SSL support, certificate paths given, certificate
\* files exist, and runs no later check
C9_ChecksInOrder ==
    last.op = "PuppetdbConnectorSSL"
    => LET n == FirstFailingCheck
           early == IF release = "nothrow"
                    THEN <<"No hostname was specified.",
                           "libcurl is not SSL enabled.",
                           "Not all certificates were specified.">>
                    ELSE <<"no hostname specified",
                           "libcurl is not SSL enabled",
                           "not all certificates were specified">>
       IN /\ n \in {1, 2, 3}
             => /\ ConstructedInvalid
                /\ ReportedError = early[n]
                /\ last.probed = <<>>
          /\ n = 4
             => /\ ConstructedInvalid
                /\ \A k \in 1..3 : ReportedError # early[k]
          /\ n = 0 => ConstructedValid
          /\ last.checks
                 = SubSeq(<<"checkHostname", "checkSSLSupport",
                            "checkCertificates">>,
                          1, IF n \in {1, 2} THEN n ELSE 3)

\* the CA certificate file does not exist and the key path is empty: the
\* missing path is what is reported
C9_Witness ==
    /\ release = "nothrow"
    /\ last.op = "PuppetdbConnectorSSL"
    /\ last.args[1] # ""
    /\ last.ssl
    /\ last.args[2] # ""
    /\ last.args[2] \notin last.fs
    /\ last.args[4] = ""
    /\ connector.error_msg = "Not all certificates were specified."

\* C10: with a hostname, SSL support and three certificate paths, the SSL
\* constructor fails iff one of the files does not exist, and then names the
\* first missing one in the order CA certificate, client certificate,
\* client key
C10_FirstMissingFileNamed ==
    (/\ last.op = "PuppetdbConnectorSSL"
     /\ last.args[1] # ""
     /\ last.ssl
     /\ \A k \in 2..4 : last.args[k] # "")
    => LET missing == {k \in 2..4 : last.args[k] \notin last.fs}
           first == CHOOSE k \in missing : \A j \in missing : k <= j
       IN IF missing = {}
          THEN ConstructedValid
          ELSE /\ ConstructedInvalid
               /\ ReportedError
                      = (IF release = "nothrow"
                         THEN "Invalid certificate: "
                         ELSE "invalid certificate file: ")
                        \o last.args[first]

\* the CA certificate exists, the client certificate and the client key do
\* not: the client certificate is named
C10_Witness ==
    /\ release = "nothrow"
    /\ last.op = "PuppetdbConnectorSSL"
    /\ last.args[1] # ""
    /\ last.ssl
    /\ \A k \in 2..4 : last.args[k] # ""
    /\ last.args[2] \in last.fs
    /\ last.args[3] \notin last.fs
    /\ last.args[4] \notin last.fs
    /\ ~connector.is_valid
    /\ connector.error_msg = "Invalid certificate: " \o last.args[3]

\* C11: a plain connector is invalid iff its hostname is empty: with an
\* empty hostname the non-throwing release gives isValid() false and the
\* message "No hostname was specified.", the exception release throws
\* connector_error; with a hostname, whatever the port and the API version,
\* the connector is valid, its message is "" and nothing is thrown
C11_PlainInvalidIffNoHostname ==
    last.op = "PuppetdbConnector"
    => IF last.args[1] = ""
       THEN IF release = "nothrow"
            THEN /\ conn_pc = "alive"
                 /\ ~connector.is_valid
                 /\ connector.error_msg = "No hostname was specified."
            ELSE /\ conn_pc = "threw"
                 /\ last.exception.type = "connector_error"
       ELSE /\ conn_pc = "alive"
            /\ last.exception = NoException
            /\ release = "nothrow"
               => connector.is_valid /\ connector.error_msg = ""

\* a plain connector was built without a hostname in the non-throwing
\* release, on a port other than the default one
C11_Witness ==
    /\ release = "nothrow"
    /\ last.op = "PuppetdbConnector"
    /\ last.args[1] = ""
    /\ connector.port # 8080
    /\ ~connector.is_valid
    /\ connector.error_msg = "No hostname was specified."

\* sub occurs in str
Contains(str, sub) ==
    \E k \in 1..(Len(str) - Len(sub) + 1) :
        SubSeq(str, k, k + Len(sub) - 1) = sub

\* the URL the documentation describes for connector c and query q
DocumentedUrl(c, q) ==
    (IF c.is_secure THEN "https" ELSE "http") \o "://" \o c.hostname
    \o ":" \o to_string(c.port) \o "/"
    \o (CASE c.api_version = 0 -> "v2"
          [] c.api_version = 1 -> "v3"
          [] c.api_version = 2 -> "v4")
    \o "/" \o q.endpoint
    \o (IF q.query_string # ""
        THEN "?query=" \o Escape(q.query_string)
        ELSE "")

\* C12: when the encoding works, getQueryUrl returns scheme "://" hostname
\* ":" decimal port "/" API version "/" endpoint, followed by "?query=" and
\* the percent-encoded query string iff the query string is not empty, with
\* scheme https iff the connector is secure; the URL of an empty query
\* string has no "?query=" part.  The URL handed to a request is built the
\* same way
C12_QueryUrlFormat ==
    (last.op \in {"getQueryUrl", "performQuery"} /\ NoEncodingFailure)
    => LET c == connector
           q == queries[last.q]
           url == IF last.op = "getQueryUrl" THEN last.result
                  ELSE IF last.requests # <<>>
                  THEN last.requests[1].handle.url
                  ELSE DocumentedUrl(c, q)
       IN /\ url = DocumentedUrl(c, q)
          /\ Contains(url, "?query=") <=> q.query_string # ""
          /\ SubSeq(url, 1, 5) = "https" <=> c.is_secure

\* getQueryUrl of Query("nodes", "a=b") on the plain connector for "spam"
\* with the defaults of the non-throwing release
C12_Witness ==
    /\ release = "nothrow"
    /\ last.op = "getQueryUrl"
    /\ queries[last.q].query_string = "a=b"
    /\ last.result = "http://spam:8080/v3/nodes?query=a%3Db"

\* C13: when curl_easy_escape fails on a non-empty query string,
\* getQueryUrl returns "" (non-throwing release) or throws processing_error
\* (exception release), never a partial URL; performQuery of the
\* non-throwing release then sets the query's error code to
\* URL_ENCODING_FAILURE (103), issues no request and returns ""
C13_EncodingFailure ==
    ~NoEncodingFailure
    => /\ queries[last.q].query_string # ""
       /\ last.op = "getQueryUrl"
          => /\ last.result = ""
             /\ last.exception
                    = IF release = "nothrow" THEN NoException
                      ELSE [type |-> "processing_error",
                            what |-> "failed to encode the query URL"]
       /\ (last.op = "performQuery" /\ release = "nothrow")
          => /\ queries[last.q].error_code = 103
             /\ last.requests = <<>>
             /\ last.result = ""

\* performQuery of the non-throwing release met an encoding failure on a
\* query that had been valid
C13_Witness ==
    /\ release = "nothrow"
    /\ last.op = "performQuery"
    /\ last.escapes = <<FALSE>>
    /\ queries[last.q].endpoint # ""
    /\ queries[last.q].error_code = 103
    /\ last.requests = <<>>

\* C14: in the non-throwing release, after construction and after any
\* sequence of performQuery calls, isValid() of a query is true iff its
\* endpoint is not empty
C14_ValidIffEndpoint ==
    release = "nothrow"
    => \A i \in QueryIds :
           query_pc[i] = "alive"
           => (Query_isValid(queries[i]) <=> queries[i].endpoint # "")

\* C15: the outcome of the Query constructor depends on the endpoint only:
\* with an empty endpoint, whatever the query string, the non-throwing
\* release gives isValid() false and error code INVALID_QUERY (102) and the
\* exception release throws query_error; with an endpoint, whatever the
\* query string, isValid() is true with error code OK (100) and nothing is
\* thrown
C15_QueryConstruction ==
    last.op = "Query"
    => IF last.args[1] = ""
       THEN IF release = "nothrow"
            THEN /\ query_pc[last.q] = "alive"
                 /\ ~Query_isValid(queries[last.q])
                 /\ queries[last.q].error_code = 102
            ELSE /\ query_pc[last.q] = "threw"
                 /\ last.exception.type = "query_error"
       ELSE /\ query_pc[last.q] = "alive"
            /\ last.exception = NoException
            /\ release = "nothrow"
               => /\ Query_isValid(queries[last.q])
                  /\ queries[last.q].error_code = 100

\* a query was built in the non-throwing release with an empty endpoint
\* and a query string
C15_Witness ==
    /\ release = "nothrow"
    /\ last.op = "Query"
    /\ last.args = <<"", "a=b">>
    /\ queries[last.q].error_code = 102

\* C16: getEndpoint() and getQueryString() give the strings passed to the
\* constructor (the query string is stored as given, not encoded) and no
\* performQuery or getQueryUrl call changes them: only the error code of a
\* query changes after construction
C16_QueryComponentsFixed ==
    [][\A i \in QueryIds :
          /\ (query_pc[i] = "none" /\ query_pc'[i] = "alive")
             => /\ queries'[i].endpoint = last'.args[1]
                /\ queries'[i].query_string = last'.args[2]
          /\ query_pc[i] = "alive"
             => /\ query_pc'[i] = "alive"
                /\ queries'[i].endpoint = queries[i].endpoint
                /\ queries'[i].query_string = queries[i].query_string
                /\ IF release = "nothrow"
                   THEN [queries'[i] EXCEPT !.error_code =
                                                queries[i].error_code]
                            = queries[i]
                   ELSE queries'[i] = queries[i]
      ]_vars

\* a query built with the query string "a=b" was sent as a%3Db, the
\* request failed, and the query still holds "a=b"
C16_Witness ==
    /\ release = "nothrow"
    /\ last.op = "performQuery"
    /\ last.requests # <<>>
    /\ Contains(last.requests[1].handle.url, "a%3Db")
    /\ queries[last.q].error_code = 18
    /\ queries[last.q].endpoint = "nodes"
    /\ queries[last.q].query_string = "a=b"

\* the chunks of seq joined in order
RECURSIVE Concat(_)
Concat(seq) ==
    IF seq = <<>> THEN "" ELSE Head(seq) \o Concat(Tail(seq))

C18_SecureIffSSLConstructor ==
    [][/\ (conn_pc = "none" /\ conn_pc' = "alive")
          => connector'.is_secure = (last'.op = "PuppetdbConnectorSSL")
       /\ conn_pc = "alive"
          => connector'.is_secure = connector.is_secure
      ]_vars

\* a connector built by the certificate constructor failed its checks,
\* refused a query and reports isSecure()
C18_Witness ==
    /\ release = "nothrow"
    /\ last.op = "performQuery"
    /\ ~connector.is_valid
    /\ connector.is_secure
    /\ queries[last.q].error_code = 101

\* C19: in the pre-encoded release toString() is the endpoint alone when
\* the query string is empty and endpoint "?query=" query string otherwise,
\* with no percent-encoding, and getQueryUrl puts that string as it is
\* after the API-version segment
C19_PreEncodedUrl ==
    LET q == queries[last.q]
        c == connector
        text == IF q.query_string = "" THEN q.endpoint
                ELSE q.endpoint \o "?query=" \o q.query_string
    IN /\ last.op = "toString" => last.result = text
       /\ last.op = "getQueryUrl"
          => last.result
                 = (IF c.is_secure THEN "https" ELSE "http") \o "://"
                   \o c.hostname \o ":" \o to_string(c.port) \o "/"
                   \o (IF c.api_version = 0 THEN "v2" ELSE "v3")
                   \o "/" \o text

\* Query("nodes", "bar") on the plain connector for "spam" with the
\* default port and API version
C19_Witness ==
    /\ release = "preencoded"
    /\ last.op = "getQueryUrl"
    /\ queries[last.q].endpoint = "nodes"
    /\ queries[last.q].query_string = "bar"
    /\ connector.hostname = "spam"
    /\ connector.port = PUPPETDB_HTTP_PORT
    /\ connector.api_version = API_VERSION_DEFAULT_pq
    /\ ~connector.is_secure
    /\ last.result = "http://spam:8080/v3/nodes?query=bar"

\* C20: in the non-throwing release, once performQuery has executed a
\* request for a query, getErrorCode() is the code libcurl returned for
\* that request, a number of 0..99; a code above 100 tells of a failure of
\* the construction of the connector or of the query, not of the execution
\* of the query
C20_ErrorCodeIsCurlCode ==
    (release = "nothrow" /\ last.op = "performQuery")
    => LET code == queries[last.q].error_code
       IN /\ last.requests # <<>>
             => /\ code = last.requests[1].return_code
                /\ code \in 0..99
          /\ code > 100
             => ~connector.is_valid \/ queries[last.q].endpoint = ""

\* the connector is the one PuppetdbConnector(hostname) builds in the
\* exception release: an omitted argument is its default, passed by the
\* caller
DefaultPlain_v2(c) ==
    /\ ~c.is_secure
    /\ c.port = PUPPETDB_HTTP_PORT
    /\ c.api_version = API_VERSION_DEFAULT_v2

\* the connectors of the exception release built without port and API
\* version use the ports 8080 (plain) and 8081 (secure) and put the segment
\* version in their URLs
DefaultsOfRelease2(version) ==
    release = "throw"
    => /\ (last.op = "PuppetdbConnectorSSL" /\ conn_pc = "alive")
          => /\ connector.port = 8081
             /\ getApiVersion_v2(connector) = version
       /\ (last.op = "getQueryUrl" /\ NoEncodingFailure
           /\ DefaultPlain_v2(connector)
           /\ queries[last.q].query_string = "")
          => last.result = "http://" \o connector.hostname \o ":8080/"
                           \o version \o "/" \o queries[last.q].endpoint

FreshConnector(c, ssl, fs) ==
    IF release = "nothrow"
    THEN IF c.is_secure
         THEN PuppetdbConnectorSSL_v1(c.hostname, c.ca_crt_path,
                  c.client_crt_path, c.client_key_path, c.port,
                  c.api_version, ssl, fs).obj
         ELSE PuppetdbConnector_v1(c.hostname, c.port, c.api_version).obj
    ELSE IF c.is_secure
         THEN PuppetdbConnectorSSL_v2(c.hostname, c.ca_crt_path,
                  c.client_crt_path, c.client_key_path, c.port,
                  c.api_version, ssl, fs).obj
         ELSE PuppetdbConnector_v2(c.hostname, c.port, c.api_version).obj

\* a query newly built from the constructor arguments of q
FreshQuery(q) ==
    IF release = "nothrow" THEN Query_v1(q.endpoint, q.query_string)
    ELSE Query_v2(q.endpoint, q.query_string).obj

\* getQueryUrl of newly built objects, the encoding working (esc_ok) or not
FreshUrl(c, q, esc_ok, ssl, fs) ==
    IF release = "nothrow"
    THEN getQueryUrl_v1(FreshConnector(c, ssl, fs), FreshQuery(q), esc_ok)
    ELSE getQueryUrl_v2(FreshConnector(c, ssl, fs), FreshQuery(q),
                        esc_ok).url

C23_HandleReleased ==
    last.op = "performQuery" => last.handle \in {"null", "released"}

\* the step is a performQuery call on a valid connector with a valid query
\* whose URL builds
FirstKind ==
    /\ PerformStep
    /\ ConnectorValid(connector)
    /\ QueryValid(queries[last'.q])
    /\ NoEncodingFailure'

C26_GetQueryUrlNoEffect ==
    [][/\ UrlStep => connector' = connector /\ queries' = queries
       /\ (conn_pc = "alive"
           /\ connector'.performed_query_url
                  # connector.performed_query_url)
          => PerformStep /\ last'.setup_called
      ]_vars

\* a direct getQueryUrl call met an encoding failure on a connector that
\* had recorded a URL: the URL is still there and the query is still valid
C26_Witness ==
    /\ release = "nothrow"
    /\ last.op = "getQueryUrl"
    /\ last.escapes = <<FALSE>>
    /\ last.result = ""
    /\ connector.performed_query_url # ""
    /\ queries[last.q].error_code = 100

\* C27: in the non-throwing release, in every state of a connector, plain
\* or secure, before and after performQuery calls, isValid() is true iff
\* getErrorMessage() is ""; so the message of a valid connector is still
\* "" after its queries have failed at the transport
C27_ValidIffNoMessage ==
    (release = "nothrow" /\ conn_pc = "alive")
    => (connector.is_valid <=> connector.error_msg = "")

\* a request of a valid secure connector could not connect: the connector
\* is valid and its message is empty
C27_Witness ==
    /\ release = "nothrow"
    /\ last.op = "performQuery"
    /\ last.requests # <<>>
    /\ last.requests[1].return_code = 7
    /\ connector.is_secure
    /\ connector.is_valid
    /\ connector.error_msg = ""

====
